---- MODULE Spec2Model ----
(***************************************************************************)
(* MyAICopilot: the API client (circuit breaker, timeout and signal        *)
(* merging) and the inline completion provider (debounce, fetch pipeline). *)
(*                                                                         *)
(* Every async function is cut at its awaits: one action per segment that  *)
(* runs without yielding to the event loop.  Time is the value Date.now()  *)
(* returns, in milliseconds.                                               *)
(***************************************************************************)
EXTENDS Integers, FiniteSets, Sequences, TLC

\* ---------------------------------------------------------------- bounds
MaxCalls == 2        \* client calls that may overlap (slots are reused)
MaxTicks == 2        \* the clock advances at most this many quanta
FailCap == 6         \* qualifying failures are answered only below this count
MaxReqs == 2         \* provideInlineCompletionItems calls of one provider
MaxKeys == 2         \* distinct cache keys (document contexts) of the requests
MaxSteps == 3        \* the provider's clock advances at most this many half debounces

\* ------------------------------------------------------ program constants
maxFailures == 5
cooldownMs == 60000
completionTimeoutMs == 30000
testTimeoutMs == 10000
debounceMs == 150
ttlSeconds == 30

\* Language identifiers of the documents, and the configured allow-list
\* (autocomplete.supportedLanguages).
Languages == {"typescript", "plaintext"}

supportedLanguages == {"typescript"}

\* context.triggerKind: Automatic or Invoke
Triggers == {"auto", "invoke"}

\* One step of the clock: half a cooldown, exactly one completion timeout.
Quantum == cooldownMs \div 2

NoTimer == -1

\* HTTP statuses the upstream may answer with; 0 stands for "no response".
Statuses == {200, 400, 429, 500}

\* Reason phrases (response.statusText) the upstream may send with a status.
Phrases == {"Error", "Request cancelled"}

\* What secretStorage.get(SECRET_KEY) may resolve with: nothing, or the key the
\* user has stored (a trimmed text that is not empty).
NoSecret == "undefined"

Secrets == {NoSecret, "sk-1"}

\* response.ok
IsOk(status) == status >= 200 /\ status <= 299

VARIABLES
    now,            \* Date.now()
    failures,       \* circuitBreaker.failures
    cooldownUntil,  \* circuitBreaker.cooldownUntil
    calls,          \* the createCompletion / createChatCompletion calls
    streak,         \* history: qualifying failures since the last ok response
    lastTrip,       \* history: time of the last failure that made streak >= maxFailures
    reqs,           \* the provideInlineCompletionItems calls of one provider
    debounceTimer,  \* AICodeCompletionProvider.debounceTimer: the request it was set for
    abortController,\* AICodeCompletionProvider.abortController: the request it was made for
    cache,          \* workspaceState under CACHE_PREFIX: key -> expiry (0: no entry)
    store,          \* CacheManager on its own: context.workspaceState, key -> entry
    ret,            \* CacheManager on its own: the last call and what it did
    sse,            \* one chat stream: createChatCompletion from the ok response on
    secret,         \* context.secrets under SECRET_KEY, where the store is followed
    derived,        \* the cache keys generateCacheKey has returned, with their inputs
    built           \* the message lists buildMessages has returned, with their inputs

clientVars == <<now, failures, cooldownUntil, calls, streak, lastTrip>>

providerVars == <<reqs, debounceTimer, abortController, cache>>

\* The state of the cache manager and of the chat stream taken on their own.
otherVars == <<store, ret, sse, secret, derived, built>>

vars == <<now, failures, cooldownUntil, calls, streak, lastTrip,
          reqs, debounceTimer, abortController, cache, store, ret, sse, secret,
          derived, built>>

Kinds == {"completion", "chat"}

\* A call that has not been made.  closedAtStart, trippedAtStart, issued,
\* headers and due are history: what the breaker was when the call started,
\* whether fetch was called and with which headers, and, while the request is
\* in flight, the time its timer was set for.
IdleCall ==
    [kind |-> "completion", pc |-> "idle", hasSig |-> FALSE, sigAborted |-> FALSE,
     ctrlAborted |-> FALSE, fetchAborted |-> FALSE, deadline |-> NoTimer,
     result |-> "none", status |-> 0, reason |-> "", issued |-> FALSE,
     closedAtStart |-> FALSE, trippedAtStart |-> FALSE,
     headers |-> {}, due |-> NoTimer]

CallIds == DOMAIN calls

Running(c) == calls[c].pc \notin {"idle", "done"}

\* Variant: the timer is left armed.
clearTimer_Forgotten(call) == call

\* clearTimeout(timeoutId) (client.ts:44, 75, 85, 130)
clearTimer(call) == [call EXCEPT !.deadline = NoTimer]

\* The call returns or throws (its finally / catch has cleared the timer).
\* Of the abort flags only those of a call that returned a response are kept,
\* and of the kinds only that of a connectivity test.
Finish(call, res, st) ==
    [clearTimer(call) EXCEPT
                 !.pc = "done", !.result = res, !.status = st,
                 !.fetchAborted = FALSE, !.due = NoTimer,
                 !.kind = IF @ = "test" THEN @ ELSE "completion",
                 !.hasSig = FALSE,
                 !.sigAborted = (res = "response" /\ @),
                 !.ctrlAborted = (res = "response" /\ @)]

\* ------------------------------------------------------- circuit breaker

\* Variant: every non-success status counts as a failure.
IsQualifying_AnyError(status) == status >= 400

\* handleFailure's condition (client.ts:200)
IsQualifying(status) == status >= 500 \/ status = 429

\* Variant: the breaker is still open at the instant the cooldown ends.
CircuitOpen_Inclusive == now <= cooldownUntil

\* checkCircuitBreaker's condition (client.ts:215)
CircuitOpen == now < cooldownUntil

\* Variant: the breaker trips one failure late (> instead of >=).
handleFailure_Late(status) ==
    IF IsQualifying(status)
    THEN /\ failures' = failures + 1
         /\ cooldownUntil' = IF failures + 1 > maxFailures
                             THEN now + cooldownMs
                             ELSE cooldownUntil
    ELSE UNCHANGED <<failures, cooldownUntil>>

\* Variant: the breaker trips only at the failure that makes the count equal
\* to maxFailures (=== instead of >=).
handleFailure_Exact(status) ==
    IF IsQualifying(status)
    THEN /\ failures' = failures + 1
         /\ cooldownUntil' = IF failures + 1 = maxFailures
                             THEN now + cooldownMs
                             ELSE cooldownUntil
    ELSE UNCHANGED <<failures, cooldownUntil>>

handleFailure(status) ==
    IF IsQualifying(status)
    THEN /\ failures' = failures + 1
         /\ cooldownUntil' = IF failures + 1 >= maxFailures
                             THEN now + cooldownMs
                             ELSE cooldownUntil
    ELSE UNCHANGED <<failures, cooldownUntil>>

\* Variant: a success takes one failure off the count instead of all.
ResetFailures_Decay ==
    /\ failures' = IF failures > 0 THEN failures - 1 ELSE 0
    /\ UNCHANGED cooldownUntil

\* Variant: a success also closes the breaker.
ResetFailures_AndCooldown ==
    /\ failures' = 0
    /\ cooldownUntil' = 0

\* this.circuitBreaker.failures = 0 (client.ts:82, client.ts:127)
ResetFailures ==
    /\ failures' = 0
    /\ UNCHANGED cooldownUntil

\* ------------------------------------------------------------ the clock

Tick ==
    /\ now < MaxTicks * Quantum
    /\ now' = now + Quantum
    /\ UNCHANGED <<failures, cooldownUntil, calls, streak, lastTrip>>
    /\ UNCHANGED providerVars

\* ------------------------------------------------------ signal merging

\* mergeSignals (client.ts:220): the merged signal's `aborted` flag when it is
\* returned.  The signal belongs to a fresh controller, and only a later
\* "abort" event of either source aborts it; the sources' current flags are
\* not read.
mergeSignals(signal1Aborted, signal2Aborted) == FALSE

\* ------------------------------------------------------- the client calls

\* createCompletion / createChatCompletion are entered: checkCircuitBreaker
\* runs in the same turn of the event loop as the call.  The call as it stands
\* at its first await.
BeginCall(k, sig) ==
    LET fresh == [IdleCall EXCEPT
                    !.closedAtStart = (now >= cooldownUntil),
                    !.trippedAtStart = (streak >= maxFailures
                                        /\ now < lastTrip + cooldownMs)]
    IN  IF CircuitOpen
        THEN Finish(fresh, "cooling", 0)
        ELSE [fresh EXCEPT !.kind = k, !.hasSig = sig, !.pc = "getKey"]

\* A caller other than the provider starts a call.
StartCall(c, k, sig) ==
    /\ ~Running(c)
    /\ \A d \in CallIds : d < c => Running(d)
    /\ k = "chat" => ~sig
    /\ calls' = [calls EXCEPT ![c] = BeginCall(k, sig)]
    /\ UNCHANGED <<now, failures, cooldownUntil, streak, lastTrip>>

\* getHeaders (client.ts:180-186), as the set of the pairs of a header's name
\* and its value.
getHeaders(apiKey) ==
    {<<"Content-Type", <<"application/json">>>>,
     <<"Authorization", <<"Bearer", apiKey>>>>,
     <<"User-Agent", <<"MyAICopilot/0.1.0">>>>}

\* The headers of the request of each operation (client.ts:32, 64, 110).
HeadersOf(kind, apiKey) ==
    IF kind = "test"
    THEN {<<"Authorization", <<"Bearer", apiKey>>>>}
    ELSE getHeaders(apiKey)

\* The delay of the timer of each operation (client.ts:28, 54, 103).
TimeoutOf(kind) == IF kind = "test" THEN testTimeoutMs ELSE completionTimeoutMs

\* Variant: the request is sent without a credential.
KeyMissing_Ignored(key) == FALSE

\* if (!key) (client.ts:190)
KeyMissing(key) == key = NoSecret

\* secretStorage.get resolves, with the key or with nothing; with a key the
\* controller, the timer and the merged signal are set up and fetch is called.
getApiKey(c, key) ==
    /\ calls[c].pc = "getKey"
    /\ calls' = [calls EXCEPT ![c] =
                    IF KeyMissing(key)
                    THEN Finish(calls[c], "nokey", 0)
                    ELSE [calls[c] EXCEPT
                            !.pc = "fetch",
                            !.issued = TRUE,
                            !.headers = HeadersOf(calls[c].kind, key),
                            !.deadline = now + TimeoutOf(calls[c].kind),
                            !.due = now + TimeoutOf(calls[c].kind),
                            !.fetchAborted =
                                IF calls[c].hasSig
                                THEN mergeSignals(calls[c].ctrlAborted,
                                                  calls[c].sigAborted)
                                ELSE calls[c].ctrlAborted]]
    /\ UNCHANGED <<now, failures, cooldownUntil, streak, lastTrip>>

\* The caller's signal of call c is aborted.  The merged signal hears of it
\* only once mergeSignals has added its listeners; a call that is over is not
\* touched.
Aborted(cs, c) ==
    IF c \in DOMAIN cs /\ cs[c].pc \in {"getKey", "fetch", "body"}
       /\ cs[c].hasSig /\ ~cs[c].sigAborted
    THEN [cs EXCEPT ![c] =
            [cs[c] EXCEPT
                !.sigAborted = TRUE,
                !.fetchAborted = @ \/ cs[c].pc \in {"fetch", "body"}]]
    ELSE cs

\* The caller aborts req.signal while the call is running.
AbortSignal(c) ==
    /\ Running(c)
    /\ calls[c].hasSig
    /\ ~calls[c].sigAborted
    /\ calls' = Aborted(calls, c)
    /\ UNCHANGED <<now, failures, cooldownUntil, streak, lastTrip>>

\* The internal timer fires: controller.abort().
Timeout(c) ==
    /\ calls[c].deadline # NoTimer
    /\ now >= calls[c].deadline
    /\ calls' = [calls EXCEPT ![c] =
                    [calls[c] EXCEPT !.ctrlAborted = TRUE,
                                     !.deadline = NoTimer,
                                     !.fetchAborted = TRUE]]
    /\ UNCHANGED <<now, failures, cooldownUntil, streak, lastTrip>>

\* fetch resolves with a response of the given status and reason phrase
\* (response.statusText).
FetchRespond(c, status, phrase) ==
    /\ calls[c].pc = "fetch"
    /\ calls[c].kind # "test"
    /\ ~calls[c].fetchAborted
    /\ IsQualifying(status) => failures < FailCap
    /\ IF IsOk(status)
       THEN /\ ResetFailures
            /\ calls' = [calls EXCEPT ![c] =
                            [(IF calls[c].kind = "completion"
                              THEN clearTimer(calls[c]) ELSE calls[c]) EXCEPT
                                !.pc = "body",
                                !.status = status]]
            /\ streak' = 0
            /\ UNCHANGED lastTrip
       ELSE /\ handleFailure(status)
            /\ calls' = [calls EXCEPT ![c] =
                            [Finish(calls[c], "http", status) EXCEPT
                                !.reason = phrase]]
            /\ streak' = IF status >= 500 \/ status = 429
                         THEN streak + 1 ELSE streak
            /\ lastTrip' = IF (status >= 500 \/ status = 429)
                              /\ streak + 1 >= maxFailures
                           THEN now ELSE lastTrip
    /\ UNCHANGED now

\* The fetch of testConnection resolves (client.ts:31-42): a status that is
\* not ok is thrown as an error, and the breaker is not told of either outcome.
TestRespond(c, status) ==
    /\ calls[c].pc = "fetch"
    /\ calls[c].kind = "test"
    /\ ~calls[c].fetchAborted
    /\ calls' = [calls EXCEPT ![c] =
                    IF IsOk(status)
                    THEN [calls[c] EXCEPT !.pc = "body", !.status = status]
                    ELSE Finish(calls[c], "http", status)]
    /\ UNCHANGED <<now, failures, cooldownUntil, streak, lastTrip>>

\* fetch rejects with a network error.
FetchFail(c) ==
    /\ calls[c].pc = "fetch"
    /\ ~calls[c].fetchAborted
    /\ calls' = [calls EXCEPT ![c] = Finish(calls[c], "network", 0)]
    /\ UNCHANGED <<now, failures, cooldownUntil, streak, lastTrip>>

\* fetch, or the read of the body, rejects with AbortError.
FetchAborted(c) ==
    /\ calls[c].pc \in {"fetch", "body"}
    /\ calls[c].fetchAborted
    /\ calls' = [calls EXCEPT ![c] = Finish(calls[c], "cancelled", 0)]
    /\ UNCHANGED <<now, failures, cooldownUntil, streak, lastTrip>>

\* The body has been read: response.json() resolves or throws a SyntaxError;
\* the chat stream ends.
BodyDone(c, good) ==
    /\ calls[c].pc = "body"
    /\ ~calls[c].fetchAborted
    /\ calls' = [calls EXCEPT ![c] =
                    Finish(calls[c], IF good THEN "response" ELSE "badjson",
                           calls[c].status)]
    /\ UNCHANGED <<now, failures, cooldownUntil, streak, lastTrip>>

\* ------------------------------------------------- the client on its own

Init ==
    /\ now = 0
    /\ failures = 0
    /\ cooldownUntil = 0
    /\ calls = [c \in 1..MaxCalls |-> IdleCall]
    /\ streak = 0
    /\ lastTrip = 0
    /\ reqs = <<>>
    /\ debounceTimer = 0
    /\ abortController = 0
    /\ cache = <<>>
    /\ store = <<>>
    /\ ret = <<>>
    /\ sse = <<>>
    /\ secret = NoSecret
    /\ derived = <<>>
    /\ built = <<>>

\* The steps of a call that wait for the credential store or the network.
ClientStep(c) ==
    \/ \E key \in Secrets : getApiKey(c, key)
    \/ \E status \in Statuses, phrase \in Phrases :
          /\ IsOk(status) => phrase = "Error"
          /\ FetchRespond(c, status, phrase)
    \/ FetchFail(c)
    \/ FetchAborted(c)
    \/ \E good \in BOOLEAN : BodyDone(c, good)

Next ==
    \/ Tick /\ UNCHANGED otherVars
    \/ \E c \in CallIds, k \in Kinds, sig \in BOOLEAN :
          StartCall(c, k, sig) /\ UNCHANGED <<providerVars, otherVars>>
    \/ \E c \in CallIds : AbortSignal(c) /\ UNCHANGED <<providerVars, otherVars>>
    \/ \E c \in CallIds : Timeout(c) /\ UNCHANGED <<providerVars, otherVars>>
    \/ \E c \in CallIds : ClientStep(c) /\ UNCHANGED <<providerVars, otherVars>>

Spec == Init /\ [][Next]_vars

\* ------------------------------------- the client with its three operations
\* testConnection next to createCompletion and createChatCompletion, and the
\* credential store followed as state: every lookup reads `secret`.

\* testConnection is entered (client.ts:23-24): no breaker check, no caller
\* signal; it stands at the lookup of the key.
testConnection(c) ==
    /\ ~Running(c)
    /\ \A d \in CallIds : d < c => Running(d)
    /\ calls' = [calls EXCEPT ![c] = [IdleCall EXCEPT !.kind = "test", !.pc = "getKey"]]
    /\ UNCHANGED <<now, failures, cooldownUntil, streak, lastTrip>>

\* The consumer of a chat stream leaves its loop at a fragment: return() on the
\* generator runs the finally of createChatCompletion (client.ts:129-131).
ReturnChat(c) ==
    /\ calls[c].pc = "body"
    /\ calls[c].kind = "chat"
    /\ calls' = [calls EXCEPT ![c] = Finish(calls[c], "returned", calls[c].status)]
    /\ UNCHANGED <<now, failures, cooldownUntil, streak, lastTrip>>

\* The command myaicopilot.showApiKeyInput stores a key (extension.ts:68-69).
StoreKey(key) ==
    /\ key # NoSecret
    /\ secret = NoSecret
    /\ secret' = key

\* The command myaicopilot.resetApiKey (extension.ts:78).
DeleteKey ==
    /\ secret # NoSecret
    /\ secret' = NoSecret

\* What a step of a client call never touches.
callFrame == UNCHANGED <<providerVars, otherVars>>

\* What a change of the credential store never touches.
secretFrame ==
    UNCHANGED <<clientVars, providerVars, store, ret, sse, derived, built>>

TickStep == Tick /\ UNCHANGED otherVars

TimeoutStep(c) == Timeout(c) /\ callFrame

AbortedStep(c) == FetchAborted(c) /\ callFrame

NextClient ==
    \/ TickStep
    \/ \E c \in CallIds, k \in Kinds, sig \in BOOLEAN : StartCall(c, k, sig) /\ callFrame
    \/ \E c \in CallIds : testConnection(c) /\ callFrame
    \/ \E c \in CallIds : AbortSignal(c) /\ callFrame
    \/ \E c \in CallIds : TimeoutStep(c)
    \/ \E c \in CallIds : getApiKey(c, secret) /\ callFrame
    \/ \E c \in CallIds, status \in Statuses, phrase \in Phrases :
          /\ IsOk(status) => phrase = "Error"
          /\ FetchRespond(c, status, phrase)
          /\ callFrame
    \/ \E c \in CallIds, status \in Statuses : TestRespond(c, status) /\ callFrame
    \/ \E c \in CallIds : FetchFail(c) /\ callFrame
    \/ \E c \in CallIds : AbortedStep(c)
    \/ \E c \in CallIds, good \in BOOLEAN : BodyDone(c, good) /\ callFrame
    \/ \E c \in CallIds : ReturnChat(c) /\ callFrame
    \/ \E key \in Secrets : StoreKey(key) /\ secretFrame
    \/ DeleteKey /\ secretFrame

SpecClient == Init /\ [][NextClient]_vars

\* Time passes, a timer that is due fires, and the rejection of an aborted
\* fetch or body read is delivered.  Nothing makes the upstream answer, the
\* caller cancel or the consumer return.
SpecClientLive ==
    /\ SpecClient
    /\ WF_vars(TickStep)
    /\ \A c \in 1..MaxCalls : WF_vars(TimeoutStep(c)) /\ WF_vars(AbortedStep(c))

\* ============================================ the completion provider
\* completionProvider.ts.  Request r is the r-th call of
\* provideInlineCompletionItems; its client call is calls[r], made with the
\* signal of the AbortController that fetchCompletion creates for it.

ReqIds == DOMAIN reqs

Keys == 1..MaxKeys

\* runs and logged are history: how often fetchCompletion was entered for the
\* request and how often logger.error was called in it; early tells that its
\* debounce timer was cleared before it was due; fresh tells, until the request
\* resolves, that the cache held an entry for its key, its expiry still ahead,
\* when provideInlineCompletionItems was called.
NoReq ==
    [trigger |-> "auto", pc |-> "none", token |-> FALSE, linked |-> FALSE,
     late |-> FALSE, key |-> 1, deadline |-> NoTimer, outcome |-> "none",
     result |-> "none", runs |-> 0, logged |-> 0, early |-> FALSE,
     fresh |-> FALSE]

\* The promise of the request resolves with an item (served) or with an empty
\* list (empty, cancelled); the token is of no use any more.
Resolve(req, how) ==
    [req EXCEPT !.pc = "resolved", !.outcome = how, !.deadline = NoTimer,
                !.token = FALSE, !.linked = FALSE, !.key = 1, !.fresh = FALSE]

\* The returned promise is still pending.
Pending(r) == reqs[r].pc \notin {"none", "resolved"}

\* Variant: the pending timer is not cleared when a new one is armed.
clearTimeout_Forgotten(req) == req

\* clearTimeout(this.debounceTimer) (completionProvider.ts:43): a timer that is
\* still armed never fires.
clearTimeout(req) ==
    IF req.pc = "debounce"
    THEN [req EXCEPT !.pc = "orphan", !.deadline = NoTimer]
    ELSE req

\* Variant: an entry is no longer served at the instant of its expiry.
CacheHit_Strict(k) == cache[k] # 0 /\ now < cache[k]

\* CacheManager.getCompletion: the entry is served unless now > expiry.
CacheHit(k) == cache[k] # 0 /\ ~(now > cache[k])

\* CacheManager.getCompletion's effect on the store: an expired entry is deleted.
CacheAfterGet(k) ==
    IF cache[k] # 0 /\ now > cache[k] THEN [cache EXCEPT ![k] = 0] ELSE cache

\* CacheManager.setCompletion
CacheAfterSet(k) == [cache EXCEPT ![k] = now + ttlSeconds * 1000]

\* The error createCompletion throws for each way it fails: its name, and
\* whether its message contains "cancelled".
ErrorOf(call) ==
    CASE call.result = "cooling"   -> [name |-> "Error", cancelled |-> FALSE]
      [] call.result = "nokey"     -> [name |-> "Error", cancelled |-> FALSE]
      [] call.result = "http"      -> [name |-> "Error",
                                       cancelled |-> call.reason = "Request cancelled"]
      [] call.result = "network"   -> [name |-> "TypeError", cancelled |-> FALSE]
      [] call.result = "cancelled" -> [name |-> "Error", cancelled |-> TRUE]
      [] call.result = "badjson"   -> [name |-> "SyntaxError", cancelled |-> FALSE]

\* fetchCompletion's catch (completionProvider.ts:119): is the error swallowed
\* without a log entry?
IsSilent(err) == err.name = "AbortError" \/ err.cancelled

\* fetchCompletion from the return of createCompletion on: the request's
\* record and the cache.  nonEmpty: the cleaned suggestion text is not empty.
Settled(req, call, nonEmpty) ==
    LET got == [req EXCEPT !.result = call.result]
    IN  IF call.result = "response"
        THEN IF nonEmpty
             THEN Resolve(got, "served")
             ELSE Resolve(got, "empty")
        ELSE IF IsSilent(ErrorOf(call))
             THEN Resolve(got, "cancelled")
             ELSE Resolve([got EXCEPT !.logged = @ + 1], "empty")

\* Variant: a suggestion that is empty after the cleanup is stored as well.
Cacheable_Empty(call, nonEmpty) == call.result = "response"

\* fetchCompletion reaches setCompletion (completionProvider.ts:83-115) when
\* createCompletion has returned and the cleaned text is not empty.
Cacheable(call, nonEmpty) == call.result = "response" /\ nonEmpty

\* The continuation of fetchCompletion, taken in the step in which calls[r]
\* finishes.
Continue(r, nonEmpty) ==
    IF calls'[r].pc = "done" /\ reqs[r].pc = "client"
    THEN /\ reqs' = [reqs EXCEPT ![r] = Settled(reqs[r], calls'[r], nonEmpty)]
         /\ cache' = IF Cacheable(calls'[r], nonEmpty)
                     THEN CacheAfterSet(reqs[r].key)
                     ELSE cache
         /\ UNCHANGED <<debounceTimer, abortController>>
    ELSE UNCHANGED providerVars

\* A long pause of the editor, half a debounce interval short of the cache's
\* time to live.
LullMs == ttlSeconds * 1000 - debounceMs \div 2

\* The time since the start of the session, or since the end of the pause.
Clock == IF now >= LullMs THEN now - LullMs ELSE now

\* Variant: the gate lets every language through.
isLanguageSupported_Any(languageId) == TRUE

\* isLanguageSupported (completionProvider.ts:197)
isLanguageSupported(languageId) == languageId \in supportedLanguages

\* Variant: a manual invocation is treated like an automatic trigger.
IsInvoke_Never(trigger) == FALSE

\* context.triggerKind === InlineCompletionTriggerKind.Invoke
\* (completionProvider.ts:38)
IsInvoke(trigger) == trigger = "invoke"

\* The early exit for a language that is not supported
\* (completionProvider.ts:33): the call returns an empty list at once.
Gated(r, trigger) ==
    /\ reqs[r].pc = "none"
    /\ \A q \in ReqIds : q < r => reqs[q].pc # "none"
    /\ reqs' = [reqs EXCEPT ![r] =
                   Resolve([NoReq EXCEPT !.trigger = trigger], "unsupported")]
    /\ UNCHANGED <<debounceTimer, abortController, cache>>
    /\ UNCHANGED clientVars

\* An automatic trigger for a supported language (completionProvider.ts:42-56):
\* the pending timer is cleared and a new one is armed.
ProvideAuto(r, k) ==
    /\ reqs[r].pc = "none"
    /\ \A q \in ReqIds : q < r => reqs[q].pc # "none"
    /\ Clock + debounceMs <= MaxSteps * (debounceMs \div 2)
    /\ LET p == debounceTimer
           marked == IF p # 0 /\ reqs[p].pc = "debounce"
                     THEN [reqs EXCEPT ![p].early = now < reqs[p].deadline]
                     ELSE reqs
           cleared == IF p # 0
                      THEN [marked EXCEPT ![p] = clearTimeout(marked[p])]
                      ELSE marked
       IN  reqs' = [cleared EXCEPT ![r] =
                       [NoReq EXCEPT !.trigger = "auto", !.pc = "debounce",
                                     !.key = k, !.fresh = (cache[k] # 0 /\ now < cache[k]),
                                     !.deadline = now + debounceMs]]
    /\ debounceTimer' = r
    /\ UNCHANGED <<abortController, cache>>
    /\ UNCHANGED clientVars

\* A manual invocation (completionProvider.ts:38): fetchCompletion is entered
\* at once and stops at its first await, the hash of generateCacheKey.
ProvideInvoke(r, k) ==
    /\ reqs[r].pc = "none"
    /\ \A q \in ReqIds : q < r => reqs[q].pc # "none"
    /\ reqs' = [reqs EXCEPT ![r] =
                   [NoReq EXCEPT !.trigger = "invoke", !.pc = "hash",
                                 !.key = k, !.fresh = (cache[k] # 0 /\ now < cache[k]),
                                 !.runs = 1]]
    /\ UNCHANGED <<debounceTimer, abortController, cache>>
    /\ UNCHANGED clientVars

\* provideInlineCompletionItems (completionProvider.ts:26-57): the language
\* gate, then the manual path or the debounced one.
provideInlineCompletionItems(r, languageId, trigger, k) ==
    IF ~isLanguageSupported(languageId)
    THEN Gated(r, trigger)
    ELSE IF IsInvoke(trigger)
         THEN ProvideInvoke(r, k)
         ELSE ProvideAuto(r, k)

\* Variant: the timer callback does not look at the token.
DebounceFire_Unchecked(r) ==
    /\ reqs[r].pc = "debounce"
    /\ now >= reqs[r].deadline
    /\ reqs' = [reqs EXCEPT ![r] =
                   [reqs[r] EXCEPT !.pc = "hash", !.runs = @ + 1,
                                   !.deadline = NoTimer]]
    /\ UNCHANGED <<debounceTimer, abortController, cache>>
    /\ UNCHANGED clientVars

\* The debounce timer of request r fires (completionProvider.ts:48-55).
DebounceFire(r) ==
    /\ reqs[r].pc = "debounce"
    /\ now >= reqs[r].deadline
    /\ reqs' = [reqs EXCEPT ![r] =
                   IF reqs[r].token
                   THEN Resolve(reqs[r], "cancelled")
                   ELSE [reqs[r] EXCEPT !.pc = "hash", !.runs = @ + 1,
                                        !.deadline = NoTimer]]
    /\ UNCHANGED <<debounceTimer, abortController, cache>>
    /\ UNCHANGED clientVars

\* generateCacheKey has resolved (completionProvider.ts:66-88): the cache is
\* read; on a miss the previous controller is aborted, a new one is made, the
\* token is linked and createCompletion is entered.
FetchResolve(r, nonEmpty) ==
    /\ reqs[r].pc = "hash"
    /\ IF CacheHit(reqs[r].key)
       THEN /\ reqs' = [reqs EXCEPT ![r] = Resolve(reqs[r], "served")]
            /\ UNCHANGED <<calls, abortController, cache>>
       ELSE /\ calls' = [Aborted(calls, abortController) EXCEPT
                            ![r] = BeginCall("completion", TRUE)]
            /\ abortController' = r
            /\ LET linked == [reqs[r] EXCEPT !.pc = "client", !.linked = TRUE,
                                             !.late = reqs[r].token]
               IN  reqs' = [reqs EXCEPT ![r] =
                               IF calls'[r].pc = "done"
                               THEN Settled(linked, calls'[r], nonEmpty)
                               ELSE linked]
            /\ cache' = CacheAfterGet(reqs[r].key)
    /\ UNCHANGED <<now, failures, cooldownUntil, streak, lastTrip, debounceTimer>>

\* The editor cancels the token of request r; a linked token aborts the
\* provider's current controller (completionProvider.ts:80).
CancelToken(r) ==
    /\ Pending(r)
    /\ ~reqs[r].token
    /\ reqs' = [reqs EXCEPT ![r].token = TRUE]
    /\ calls' = IF reqs[r].linked THEN Aborted(calls, abortController) ELSE calls
    /\ UNCHANGED <<now, failures, cooldownUntil, streak, lastTrip>>
    /\ UNCHANGED <<debounceTimer, abortController, cache>>

\* The listener of a token that was already cancelled when it was linked runs
\* in a later turn of the event loop.
LateCancel(r) ==
    /\ reqs[r].late
    /\ reqs' = [reqs EXCEPT ![r].late = FALSE]
    /\ calls' = Aborted(calls, abortController)
    /\ UNCHANGED <<now, failures, cooldownUntil, streak, lastTrip>>
    /\ UNCHANGED <<debounceTimer, abortController, cache>>

\* The provider's clock: half a debounce interval; a timer that is due fires
\* before the clock moves on.
Step ==
    /\ Clock < MaxSteps * (debounceMs \div 2)
    /\ \A r \in ReqIds : reqs[r].pc = "debounce" => now < reqs[r].deadline
    /\ now' = now + debounceMs \div 2
    /\ UNCHANGED <<failures, cooldownUntil, calls, streak, lastTrip>>
    /\ UNCHANGED providerVars

\* The editor is left alone for a while: no request is waiting for a timer, a
\* hash or the network.
Lull ==
    /\ now < LullMs
    /\ \A r \in ReqIds : reqs[r].pc \notin {"debounce", "hash", "client"}
    /\ now' = now + LullMs
    /\ UNCHANGED <<failures, cooldownUntil, calls, streak, lastTrip>>
    /\ UNCHANGED providerVars

InitProvider ==
    /\ now = 0
    /\ failures = maxFailures - 1
    /\ streak = failures
    /\ cooldownUntil = 0
    /\ lastTrip = 0
    /\ calls = [c \in 1..MaxReqs |-> IdleCall]
    /\ reqs = [r \in 1..MaxReqs |-> NoReq]
    /\ debounceTimer = 0
    /\ abortController = 0
    /\ cache = [k \in Keys |-> 0]
    /\ store = <<>>
    /\ ret = <<>>
    /\ sse = <<>>
    /\ secret = NoSecret
    /\ derived = <<>>
    /\ built = <<>>

NextProvider ==
    \/ Step /\ UNCHANGED otherVars
    \/ Lull /\ UNCHANGED otherVars
    \/ \E r \in ReqIds, languageId \in Languages, trigger \in Triggers, k \in Keys :
          /\ provideInlineCompletionItems(r, languageId, trigger, k)
          /\ UNCHANGED otherVars
    \/ \E r \in ReqIds : DebounceFire(r) /\ UNCHANGED otherVars
    \/ \E r \in ReqIds, nonEmpty \in BOOLEAN :
          FetchResolve(r, nonEmpty) /\ UNCHANGED otherVars
    \/ \E r \in ReqIds : CancelToken(r) /\ UNCHANGED otherVars
    \/ \E r \in ReqIds : LateCancel(r) /\ UNCHANGED otherVars
    \/ \E r \in ReqIds, nonEmpty \in BOOLEAN :
          ClientStep(r) /\ Continue(r, nonEmpty) /\ UNCHANGED otherVars

SpecProvider == InitProvider /\ [][NextProvider]_vars

\* ==================================================== the cache manager
\* cacheManager.ts on its own.  A key of workspaceState is a sequence of
\* segments (a string cut at its separators); CACHE_PREFIX and
\* CHAT_CACHE_PREFIX are the two constants of constants.ts, one segment each.

MaxTtl == 1          \* ttlSeconds of a setCompletion call ranges over -1..MaxTtl
MaxSeconds == 3      \* the cache manager's clock advances at most this many seconds

\* ttlSeconds * 1000 (cacheManager.ts:41)
secondMs == 1000

CACHE_PREFIX == <<"completion_cache">>

CHAT_CACHE_PREFIX == <<"chat_cache">>

\* String.prototype.startsWith
startsWith(k, prefix) ==
    Len(k) >= Len(prefix) /\ SubSeq(k, 1, Len(prefix)) = prefix

\* The keys getCompletion and setCompletion are called with.
CacheKeys == {<<"k1">>, <<"k2">>}

\* Keys of the chat cache, and keys other components keep in workspaceState; one
\* of them holds the completion prefix, but not at its start.
ChatKeys == {CHAT_CACHE_PREFIX \o <<"c1">>}

OtherKeys == {<<"settings">>, <<"settings", "completion_cache">>}

StoreKeys == {CACHE_PREFIX \o k : k \in CacheKeys} \cup ChatKeys \cup OtherKeys

Items == {"item1", "item2"}

TTLs == -1..MaxTtl

\* workspaceState.get of a key that has no value.
NoEntry == [item |-> "undefined", expiry |-> 0]

\* What a key of another component holds.
ForeignEntry == [item |-> "foreign", expiry |-> 0]

\* No call of the cache manager has been made.
NoRet == [op |-> "none", key |-> <<>>, value |-> "void", updates |-> {}, rejected |-> {}]

\* workspaceState.update(fullKey, value): the store after it.  An update whose
\* promise rejects has not been applied.
update(s, fullKey, value, applied) ==
    IF applied THEN [s EXCEPT ![fullKey] = value] ELSE s

\* workspaceState.keys(): the keys that have a value.
keys(s) == {k \in DOMAIN s : s[k] # NoEntry}

\* Variant: an entry counts as expired at the instant of its expiry.
Expired_AtExpiry(entry, t) == t >= entry.expiry

\* Date.now() > entry.expiry (cacheManager.ts:23)
Expired(entry, t) == t > entry.expiry

\* getCompletion (cacheManager.ts:15-29): the value it returns at time t.
getCompletion(s, t, key) ==
    LET entry == s[CACHE_PREFIX \o key]
    IN  IF entry = NoEntry THEN "undefined"
        ELSE IF Expired(entry, t) THEN "undefined"
        ELSE entry.item

\* A call of getCompletion: an expired entry is deleted, by an update that is
\* not awaited (applied tells whether that update goes through; it is of no
\* account when there is nothing to delete).
CallGet(key, applied) ==
    LET fullKey == CACHE_PREFIX \o key
        entry == store[fullKey]
        stale == entry # NoEntry /\ Expired(entry, now)
    IN  /\ stale \/ applied
        /\ store' = IF stale THEN update(store, fullKey, NoEntry, applied) ELSE store
        /\ ret' = [op |-> "get", key |-> fullKey,
                   value |-> getCompletion(store, now, key),
                   updates |-> IF stale THEN {fullKey} ELSE {},
                   rejected |-> IF stale /\ ~applied THEN {fullKey} ELSE {}]
        /\ UNCHANGED now

\* setCompletion (cacheManager.ts:34-47): the write is not awaited and its
\* failure is logged.
setCompletion(key, item, ttl, applied) ==
    LET fullKey == CACHE_PREFIX \o key
        entry == [item |-> item, expiry |-> now + ttl * secondMs]
    IN  /\ store' = update(store, fullKey, entry, applied)
        /\ ret' = [op |-> "set", key |-> fullKey, value |-> "void",
                   updates |-> {fullKey},
                   rejected |-> IF applied THEN {} ELSE {fullKey}]
        /\ UNCHANGED now

\* Variant: a key is taken for a cache key when the prefix occurs anywhere in it.
IsCacheKey_Anywhere(k) ==
    \E i \in 1..Len(k) : <<k[i]>> = CACHE_PREFIX \/ <<k[i]>> = CHAT_CACHE_PREFIX

\* The filter of clear (cacheManager.ts:66)
IsCacheKey(k) == startsWith(k, CACHE_PREFIX) \/ startsWith(k, CHAT_CACHE_PREFIX)

\* clear (cacheManager.ts:62-75): one update per cache key, all started before
\* any is settled; failing are the keys whose update rejects.
clear(failing) ==
    LET found == {k \in keys(store) : IsCacheKey(k)}
    IN  /\ failing \subseteq found
        /\ store' = [k \in DOMAIN store |->
                        IF k \in found
                        THEN update(store, k, NoEntry, k \notin failing)[k]
                        ELSE store[k]]
        /\ ret' = [op |-> "clear", key |-> <<>>, value |-> "void",
                   updates |-> found, rejected |-> failing]
        /\ UNCHANGED now

\* The cache manager's clock: one second.
CacheTick ==
    /\ now < MaxSeconds * secondMs
    /\ now' = now + secondMs
    /\ UNCHANGED <<store, ret>>

\* The workspace may hold chat entries and keys of other components from
\* earlier sessions.
InitCache ==
    /\ now = 0
    /\ \E present \in SUBSET (ChatKeys \cup OtherKeys) :
          store = [k \in StoreKeys |->
                      IF k \in present THEN ForeignEntry ELSE NoEntry]
    /\ ret = NoRet
    /\ failures = 0
    /\ cooldownUntil = 0
    /\ calls = <<>>
    /\ streak = 0
    /\ lastTrip = 0
    /\ reqs = <<>>
    /\ debounceTimer = 0
    /\ abortController = 0
    /\ cache = <<>>
    /\ sse = <<>>
    /\ secret = NoSecret
    /\ derived = <<>>
    /\ built = <<>>

\* What the cache manager never touches.
cacheFrame ==
    UNCHANGED <<failures, cooldownUntil, calls, streak, lastTrip,
                reqs, debounceTimer, abortController, cache, sse, secret, derived,
                built>>

NextCache ==
    \/ CacheTick /\ cacheFrame
    \/ \E key \in CacheKeys, applied \in BOOLEAN : CallGet(key, applied) /\ cacheFrame
    \/ \E key \in CacheKeys, item \in Items, ttl \in TTLs, applied \in BOOLEAN :
          setCompletion(key, item, ttl, applied) /\ cacheFrame
    \/ \E failing \in SUBSET StoreKeys : clear(failing) /\ cacheFrame

SpecCache == InitCache /\ [][NextCache]_vars

\* ====================================================== the chat stream
\* client.ts: createChatCompletion from the ok response on, that is parseSSE
\* under the timer and the token listener of createChatCompletion, and the
\* consumer of the generator.  Text is a sequence of characters, a body a
\* sequence of bytes; "LF" and "CR" are the line feed and the carriage return,
\* "E9" is a character of two bytes, "C3" and "A9".
\*
\* The record {"choices":[{"delta":{"content":"ab"}}]} is written {ab}: JSON.parse
\* succeeds on a text that opens with a brace, closes with a brace and has none
\* in between, and what stands between them is choices[0].delta.content.

DataPrefix == <<"d", "a", "t", "a", ":", " ">>

DONE == <<"[", "D", "O", "N", "E", "]">>

LF == <<"LF">>

CRLF == <<"CR", "LF">>

\* The line of a record with the given delta content.
Rec(content) == DataPrefix \o <<"{">> \o content \o <<"}">>

\* The response bodies the upstream may send.
Bodies ==
    << \* the three records of the protocol, each followed by a blank line
       Rec(<<"a", "b">>) \o LF \o LF \o Rec(<<"c", "d">>) \o LF \o LF
          \o DataPrefix \o DONE \o LF \o LF,
       \* the same records with CR LF terminators
       Rec(<<"a", "b">>) \o CRLF \o CRLF \o Rec(<<"c", "d">>) \o CRLF
          \o DataPrefix \o DONE \o CRLF,
       \* a truncated record and a record without content between two good ones
       Rec(<<"a", "b">>) \o LF \o DataPrefix \o <<"{", "a">> \o LF
          \o Rec(<<>>) \o LF \o Rec(<<"c", "d">>) \o LF \o DataPrefix \o DONE \o LF,
       \* records after [DONE], and a line that is not data
       <<":", "k">> \o LF \o Rec(<<"a", "b">>) \o LF \o DataPrefix \o DONE \o LF
          \o Rec(<<"c", "d">>) \o LF \o Rec(<<"a", "b">>) \o LF,
       \* no [DONE]: a two-byte character, and a last line without terminator
       Rec(<<"C3", "A9">>) \o LF \o Rec(<<"c", "d">>) \o CRLF \o Rec(<<"a", "b">>)
    >>

\* TextDecoder.decode(value, {stream: true}): the text decoded from the bytes,
\* and the byte of an incomplete character that is kept for the next call.
\* "C3" followed by "A9" is one character; a byte that cannot be decoded gives
\* the replacement character "?".
Decoded(c) == c # "skip"

decode(carry, chunk) ==
    LET bytes == carry \o chunk
        n == Len(bytes)
        char(i) ==
            IF bytes[i] = "C3"
            THEN IF i = n THEN "skip"
                 ELSE IF bytes[i + 1] = "A9" THEN "E9" ELSE "?"
            ELSE IF bytes[i] = "A9"
                 THEN IF i > 1 /\ bytes[i - 1] = "C3" THEN "skip" ELSE "?"
                 ELSE bytes[i]
    IN  [text |-> SelectSeq([i \in 1..n |-> char(i)], Decoded),
         carry |-> IF n > 0 /\ bytes[n] = "C3" THEN <<"C3">> ELSE <<>>]

\* buffer.split(/\r?\n/): the pieces between the line feeds, each without the
\* carriage return that stood right before its line feed; the last piece is
\* what follows the last line feed.
split(text) ==
    LET feeds == {i \in 1..Len(text) : text[i] = "LF"}
        feed(k) == IF k = 0 THEN 0
                   ELSE CHOOSE i \in feeds : Cardinality({j \in feeds : j < i}) = k - 1
        piece(k) ==
            LET from == feed(k - 1) + 1
                to == IF k > Cardinality(feeds) THEN Len(text) ELSE feed(k) - 1
            IN  IF k <= Cardinality(feeds) /\ to >= from /\ text[to] = "CR"
                THEN SubSeq(text, from, to - 1)
                ELSE SubSeq(text, from, to)
    IN  [k \in 1..(Cardinality(feeds) + 1) |-> piece(k)]

\* String.prototype.slice(n)
slice(line, n) == SubSeq(line, n + 1, Len(line))

\* Variant: the incomplete last line is dropped instead of kept.
Retained_Dropped(pieces) == <<>>

\* buffer = lines.pop() || "" (client.ts:158)
Retained(pieces) == pieces[Len(pieces)]

\* Variant: the end marker is not recognised.
IsDone_Never(data) == FALSE

\* data === "[DONE]" (client.ts:163)
IsDone(data) == data = DONE

\* JSON.parse(data) and parsed.choices?.[0]?.delta?.content || ""
\* (client.ts:166-167)
JSONparse(data) ==
    IF /\ Len(data) >= 2
       /\ data[1] = "{"
       /\ data[Len(data)] = "}"
       /\ \A i \in 2..(Len(data) - 1) : data[i] \notin {"{", "}"}
    THEN [ok |-> TRUE, content |-> SubSeq(data, 2, Len(data) - 1)]
    ELSE [ok |-> FALSE, content |-> <<>>]

\* The stream of body b when parseSSE has taken the reader and awaits its
\* first read.  cutCR is history: a chunk ended between a CR and its LF.
\* handler and reported belong to handleChat, where it is the consumer: where
\* it stands, and what it has passed to progress.report.
StartStream(b) ==
    [body |-> b, pos |-> 0, carry |-> <<>>, buffer |-> <<>>, lines |-> <<>>,
     pc |-> "read", out |-> <<>>, acquired |-> TRUE, released |-> 0,
     cancelled |-> FALSE, abortedBy |-> "none", errored |-> FALSE,
     closed |-> FALSE, timer |-> TRUE, error |-> "none", cutCR |-> FALSE,
     handler |-> "running", reported |-> <<>>]

\* Variant: the reader is never released.
releaseLock_Never(st) == st

\* reader.releaseLock() in the finally of parseSSE (client.ts:176)
releaseLock(st) == [st EXCEPT !.released = @ + 1]

\* The generator is left: the finally of parseSSE, then the finally of
\* createChatCompletion (clearTimeout).  how is "ended", "threw" or "returned".
Exit(st, how, err) ==
    [releaseLock(st) EXCEPT !.pc = how, !.error = err, !.timer = FALSE,
                            !.lines = <<>>, !.buffer = <<>>, !.carry = <<>>]

\* The top of the while loop (client.ts:148-153): with the token cancelled
\* reader.cancel() is awaited, which rejects with the stored error when the
\* abort has errored the body and resolves when the body was closed already;
\* otherwise the next read is awaited.
LoopTop(st) ==
    IF st.cancelled
    THEN IF st.errored
         THEN Exit(st, "threw", "AbortError")
         ELSE Exit(st, "ended", "none")
    ELSE [st EXCEPT !.pc = "read"]

\* Variant: a record that cannot be parsed fails the stream.
Malformed_Throws(st) == Exit(st, "threw", "SyntaxError")

\* The catch of the line loop (client.ts:169-171): a warning, nothing else.
Malformed(st) == st

\* The for loop over the complete lines (client.ts:160-173), run until the next
\* yield, return or await.
RECURSIVE Run(_)
Run(st) ==
    IF st.lines = <<>> THEN LoopTop(st)
    ELSE LET line == Head(st.lines)
             rest == [st EXCEPT !.lines = Tail(@)]
         IN  IF ~startsWith(line, DataPrefix) THEN Run(rest)
             ELSE LET data == slice(line, 6)
                      parsed == JSONparse(data)
                  IN  IF IsDone(data) THEN Exit(rest, "ended", "none")
                      ELSE IF ~parsed.ok
                           THEN LET after == Malformed(rest)
                                IN  IF after.pc = "threw" THEN after ELSE Run(after)
                      ELSE IF parsed.content # <<>>
                           THEN [rest EXCEPT !.pc = "yield",
                                             !.out = Append(@, parsed.content)]
                           ELSE Run(rest)

\* reader.read() has resolved with the next n bytes (client.ts:153-158).
Feed(st, n) ==
    LET chunk == SubSeq(Bodies[st.body], st.pos + 1, st.pos + n)
        dec == decode(st.carry, chunk)
        pieces == split(st.buffer \o dec.text)
    IN  Run([st EXCEPT !.pos = @ + n,
                       !.carry = dec.carry,
                       !.buffer = Retained(pieces),
                       !.lines = SubSeq(pieces, 1, Len(pieces) - 1)])

\* controller.abort(): the first abort errors the body of the response unless
\* the body is closed (every byte received and the connection ended).
Abort(st, who, closed) ==
    IF st.abortedBy # "none" THEN st
    ELSE [st EXCEPT !.abortedBy = who, !.closed = closed, !.errored = ~closed]

\* What the chat stream never touches.
streamFrame ==
    UNCHANGED <<now, failures, cooldownUntil, calls, streak, lastTrip,
                reqs, debounceTimer, abortController, cache, store, ret, secret,
                derived, built>>

\* The pending read resolves with a chunk of n bytes.
ReadChunk(n) ==
    /\ sse.pc = "read"
    /\ ~sse.errored
    /\ sse.pos + n <= Len(Bodies[sse.body])
    /\ LET body == Bodies[sse.body]
           last == sse.pos + n
           cut == last < Len(body) /\ body[last] = "CR" /\ body[last + 1] = "LF"
       IN  sse' = [Feed(sse, n) EXCEPT !.cutCR = @ \/ cut]

\* The pending read resolves with done: the connection was closed.
ReadDone ==
    /\ sse.pc = "read"
    /\ ~sse.errored
    /\ sse.pos = Len(Bodies[sse.body])
    /\ sse' = Exit(sse, "ended", "none")

\* The pending read rejects: with the AbortError of an abort, or with a
\* network error while the body is still open.
ReadError ==
    /\ sse.pc = "read"
    /\ ~sse.closed
    /\ sse' = Exit(sse, "threw", IF sse.errored THEN "AbortError" ELSE "TypeError")

\* The consumer asks for the next fragment.
Pull ==
    /\ sse.pc = "yield"
    /\ sse' = Run(sse)

\* The consumer leaves its loop at a fragment: return() on the generator
\* (chatParticipant.ts:59-62).
Abandon ==
    /\ sse.pc = "yield"
    /\ sse' = Exit(sse, "returned", "none")

\* The token is cancelled; its listener aborts the controller (client.ts:105).
CancelChat(closed) ==
    /\ sse.pc \in {"read", "yield"}
    /\ ~sse.cancelled
    /\ closed => sse.pos = Len(Bodies[sse.body])
    /\ sse.abortedBy # "none" => closed = sse.closed
    /\ sse' = [Abort(sse, "token", closed) EXCEPT !.cancelled = TRUE]

\* The 30 second timer of createChatCompletion fires (client.ts:103).
ChatTimeout(closed) ==
    /\ sse.pc \in {"read", "yield"}
    /\ sse.timer
    /\ closed => sse.pos = Len(Bodies[sse.body])
    /\ sse.abortedBy # "none" => closed = sse.closed
    /\ sse' = [Abort(sse, "timer", closed) EXCEPT !.timer = FALSE]

\* A response without a body: parseSSE throws before it takes a reader
\* (client.ts:138-140).
NoBodyStream ==
    [StartStream(1) EXCEPT !.pc = "threw", !.error = "NoBody", !.acquired = FALSE,
                           !.timer = FALSE]

InitStream ==
    /\ sse \in {StartStream(b) : b \in DOMAIN Bodies} \cup {NoBodyStream}
    /\ now = 0
    /\ failures = 0
    /\ cooldownUntil = 0
    /\ calls = <<>>
    /\ streak = 0
    /\ lastTrip = 0
    /\ reqs = <<>>
    /\ debounceTimer = 0
    /\ abortController = 0
    /\ cache = <<>>
    /\ store = <<>>
    /\ ret = <<>>
    /\ secret = NoSecret
    /\ derived = <<>>
    /\ built = <<>>

NextStream ==
    \/ \E n \in 1..Len(Bodies[sse.body]) : ReadChunk(n) /\ streamFrame
    \/ ReadDone /\ streamFrame
    \/ ReadError /\ streamFrame
    \/ Pull /\ streamFrame
    \/ Abandon /\ streamFrame
    \/ \E closed \in BOOLEAN : CancelChat(closed) /\ streamFrame
    \/ \E closed \in BOOLEAN : ChatTimeout(closed) /\ streamFrame

SpecStream == InitStream /\ [][NextStream]_vars

\* ============================================================ handleChat
\* chatParticipant.ts:36-72 as the consumer of createChatCompletion, from the
\* pending fetch of the chat request on.

\* progress.report({ content: chunk }) and
\* progress.report({ content: `❌ Error: ${message}` })
Fragment(chunk) == [kind |-> "fragment", content |-> chunk]

ErrorMessage(err) == [kind |-> "error", content |-> <<err>>]

\* The catch of handleChat (chatParticipant.ts:67-71)
Caught(st) ==
    [st EXCEPT !.reported = Append(@, ErrorMessage(st.error)),
               !.handler = "returned"]

\* handleChat after the generator is left: the loop is over and the function
\* returns, through its catch when the generator threw.
Settle(st) ==
    IF st.handler # "running" THEN st
    ELSE IF st.pc = "threw" THEN Caught(st)
    ELSE IF st.pc \in {"ended", "returned"} THEN [st EXCEPT !.handler = "returned"]
    ELSE st

\* Variant: the loop reports the fragment before it looks at the token.
LoopBody_ReportFirst(st) ==
    LET told == [st EXCEPT !.reported = Append(@, Fragment(st.out[Len(st.out)]))]
    IN  IF st.cancelled
        THEN Exit(told, "returned", "none")
        ELSE Run(told)

\* The body of the for await loop (chatParticipant.ts:59-64) for the fragment
\* that was yielded last: break, which calls return() on the generator, or
\* report and ask for the next fragment.
LoopBody(st) ==
    IF st.cancelled
    THEN Exit(st, "returned", "none")
    ELSE Run([st EXCEPT !.reported = Append(@, Fragment(st.out[Len(st.out)]))])

\* handleChat has called createChatCompletion and awaits the first fragment;
\* the request is on its way (client.ts:98-119).
StartChat == [StartStream(1) EXCEPT !.pc = "fetch", !.acquired = FALSE]

\* The errors createChatCompletion may throw before it has a reader
\* (client.ts:98-100, 121-125, 138-140, and a rejected fetch).
StartErrors == {"cooling", "nokey", "http", "TypeError", "NoBody"}

\* fetch resolves with an ok response whose body is b.
ChatRespond(b) ==
    /\ sse.pc = "fetch"
    /\ sse.abortedBy = "none"
    /\ sse' = StartStream(b)

\* createChatCompletion throws before it has a reader; an aborted fetch rejects
\* with AbortError.
ChatRefuse(err) ==
    /\ sse.pc = "fetch"
    /\ IF sse.abortedBy = "none" THEN err \in StartErrors ELSE err = "AbortError"
    /\ sse' = Settle([sse EXCEPT !.pc = "threw", !.error = err, !.timer = FALSE])

\* The token is cancelled, or the timer fires, while the fetch is pending.
CancelEarly ==
    /\ sse.pc = "fetch"
    /\ ~sse.cancelled
    /\ sse' = [Abort(sse, "token", FALSE) EXCEPT !.cancelled = TRUE]

TimeoutEarly ==
    /\ sse.pc = "fetch"
    /\ sse.timer
    /\ sse' = [Abort(sse, "timer", FALSE) EXCEPT !.timer = FALSE]

\* The pending read resolves with a chunk, with done, or rejects
\* (client.ts:153-154), and handleChat goes on from there.
ChatRead(n) ==
    /\ sse.pc = "read"
    /\ ~sse.errored
    /\ sse.pos + n <= Len(Bodies[sse.body])
    /\ sse' = Settle(Feed(sse, n))

ChatReadDone ==
    /\ sse.pc = "read"
    /\ ~sse.errored
    /\ sse.pos = Len(Bodies[sse.body])
    /\ sse' = Settle(Exit(sse, "ended", "none"))

ChatReadError ==
    /\ sse.pc = "read"
    /\ ~sse.closed
    /\ sse' = Settle(Exit(sse, "threw",
                          IF sse.errored THEN "AbortError" ELSE "TypeError"))

\* handleChat takes the fragment the generator has yielded.
Consume ==
    /\ sse.pc = "yield"
    /\ sse' = Settle(LoopBody(sse))

InitChat ==
    /\ sse = StartChat
    /\ now = 0
    /\ failures = 0
    /\ cooldownUntil = 0
    /\ calls = <<>>
    /\ streak = 0
    /\ lastTrip = 0
    /\ reqs = <<>>
    /\ debounceTimer = 0
    /\ abortController = 0
    /\ cache = <<>>
    /\ store = <<>>
    /\ ret = <<>>
    /\ secret = NoSecret
    /\ derived = <<>>
    /\ built = <<>>

NextChat ==
    \/ \E b \in DOMAIN Bodies : ChatRespond(b) /\ streamFrame
    \/ \E err \in StartErrors \cup {"AbortError"} : ChatRefuse(err) /\ streamFrame
    \/ CancelEarly /\ streamFrame
    \/ TimeoutEarly /\ streamFrame
    \/ \E n \in 1..Len(Bodies[sse.body]) : ChatRead(n) /\ streamFrame
    \/ ChatReadDone /\ streamFrame
    \/ ChatReadError /\ streamFrame
    \/ Consume /\ streamFrame
    \/ \E closed \in BOOLEAN : CancelChat(closed) /\ streamFrame
    \/ \E closed \in BOOLEAN : ChatTimeout(closed) /\ streamFrame

SpecChat == InitChat /\ [][NextChat]_vars

\* ======================================================== the cache key
\* generateCacheKey (completionProvider.ts:130-143) and computeHash
\* (cryptoUtils).  A string is the sequence of its characters.

MaxDerived == 2      \* cache keys derived in one run

\* document.languageId: "go", "c"
LanguageIds == {<<"g", "o">>, <<"c">>}

\* document.uri.toString(): "file:///a", "file:///b", "s://h", "s://h:1/p"
Uris ==
    {<<"f", "i", "l", "e", ":", "/", "/", "/", "a">>,
     <<"f", "i", "l", "e", ":", "/", "/", "/", "b">>,
     <<"s", ":", "/", "/", "h">>,
     <<"s", ":", "/", "/", "h", ":", "1", "/", "p">>}

\* The text from 30 lines above the cursor to the cursor: "", "x", "x:y",
\* "1/p:x"
Texts ==
    {<<>>, <<"x">>, <<"x", ":", "y">>, <<"1", "/", "p", ":", "x">>}

\* computeHash (cryptoUtils:10-29) with a digest that is taken to be free of
\* collisions: the digest of a content stands for that content alone; the
\* empty content has the digest "0".
computeHash(content) ==
    IF content = <<>> THEN <<"0">> ELSE <<"sha256">> \o content

\* The template `${document.languageId}:${document.uri.toString()}:${precedingText}`
\* (completionProvider.ts:140)
HashInput(languageId, uri, precedingText) ==
    languageId \o <<":">> \o uri \o <<":">> \o precedingText

\* generateCacheKey: `completion:${contentHash}`
generateCacheKey(languageId, uri, precedingText) ==
    <<"completion", ":">> \o computeHash(HashInput(languageId, uri, precedingText))

\* A request derives its cache key.
DeriveKey(languageId, uri, precedingText) ==
    /\ Len(derived) < MaxDerived
    /\ derived' = Append(derived,
                      [languageId |-> languageId, uri |-> uri,
                       precedingText |-> precedingText,
                       key |-> generateCacheKey(languageId, uri, precedingText)])

\* What the derivation of a key never touches.
keyFrame ==
    UNCHANGED <<clientVars, providerVars, store, ret, sse, secret, built>>

NextKey ==
    \E languageId \in LanguageIds, uri \in Uris, precedingText \in Texts :
       DeriveKey(languageId, uri, precedingText) /\ keyFrame

SpecKey == Init /\ [][NextKey]_vars

\* ===================================================== the chat messages
\* buildMessages (chatParticipant.ts:74-143).  A message's content is the
\* sequence of the pieces its template puts together.

MaxBuilt == 1        \* message lists built in one run
MaxTurns == 3        \* turns in context.history
MaxHistory == 4      \* the largest chat.maxHistoryMessages that is tried

\* The turns of context.history: a request turn carries the prompt the user
\* typed, a response turn the parts of the answer.
Turns ==
    {[kind |-> "request", prompt |-> "p1"],
     [kind |-> "request", prompt |-> "p2"],
     [kind |-> "response", response |-> <<"part">>]}

Histories == UNION {[1..n -> Turns] : n \in 0..MaxTurns}

\* request.command: undefined, or the slash command
Commands == {"undefined", "explain"}

\* What the editor, @file and @workspace add to the prompt: nothing, the
\* selected code, the file's text and the workspace tree.
Contexts ==
    {[selection |-> FALSE, file |-> FALSE, workspace |-> FALSE],
     [selection |-> TRUE, file |-> FALSE, workspace |-> FALSE],
     [selection |-> FALSE, file |-> TRUE, workspace |-> TRUE]}

\* Array.prototype.slice(start) with one argument: a negative start counts
\* from the end, and a start of zero (which -0 is) is the whole array.
arraySlice(array, start) ==
    LET len == Len(array)
        k == IF start < 0
             THEN (IF len + start > 0 THEN len + start ELSE 0)
             ELSE (IF start < len THEN start ELSE len)
    IN  SubSeq(array, k + 1, len)

\* String(value) of a turn's text: a prompt is a string already, the parts
\* of a response are objects and are joined with commas.
String(value) ==
    IF value \in Seq({"part"})
    THEN [i \in 1..(2 * Len(value) - 1) |->
             IF i % 2 = 1 THEN "[object Object]" ELSE ","]
    ELSE <<value>>

\* The system message (lines 78-86)
SystemMessage(command) ==
    [role |-> "system",
     content |-> <<"You are MyAICopilot",
                   IF command = "undefined" THEN "general chat" ELSE command>>]

\* The message pushed for a turn of the history (lines 93-99)
TurnMessage(turn) ==
    IF turn.kind = "request"
    THEN [role |-> "user", content |-> String(turn.prompt)]
    ELSE [role |-> "assistant", content |-> String(turn.response)]

\* const recentHistory = context.history.slice(-maxHistory) (line 91)
recentHistory(history, maxHistory) == arraySlice(history, 0 - maxHistory)

\* contextPrompt (lines 102-134)
contextPrompt(ctx) ==
    (IF ctx.selection THEN <<"## Selected Code">> ELSE <<>>)
    \o (IF ctx.file THEN <<"## File Context">> ELSE <<>>)
    \o (IF ctx.workspace THEN <<"## Workspace Structure">> ELSE <<>>)

\* The current prompt (lines 137-140)
UserMessage(ctx, prompt) ==
    [role |-> "user", content |-> contextPrompt(ctx) \o <<"User: ", prompt>>]

buildMessages(command, prompt, ctx, history, maxHistory) ==
    LET recent == recentHistory(history, maxHistory)
    IN  <<SystemMessage(command)>>
        \o [i \in DOMAIN recent |-> TurnMessage(recent[i])]
        \o <<UserMessage(ctx, prompt)>>

\* handleChat builds the messages of a request (line 46).
BuildMessages(command, ctx, history, maxHistory) ==
    /\ Len(built) < MaxBuilt
    /\ built' = Append(built,
                    [history |-> history, maxHistory |-> maxHistory,
                     command |-> command, ctx |-> ctx,
                     messages |-> buildMessages(command, "now", ctx,
                                                history, maxHistory)])

\* What the building of the messages never touches.
messagesFrame ==
    UNCHANGED <<clientVars, providerVars, store, ret, sse, secret, derived>>

NextMessages ==
    \E command \in Commands, ctx \in Contexts, history \in Histories,
       maxHistory \in 0..MaxHistory :
       BuildMessages(command, ctx, history, maxHistory) /\ messagesFrame

SpecMessages == Init /\ [][NextMessages]_vars

\* ======================================================= the claims

\* A step in which fetch resolves with an ok response for call c.
OkResponse(c) == calls[c].pc = "fetch" /\ calls'[c].pc = "body"

\* A step in which fetch resolves with a non-ok response for call c.
ErrorResponse(c) == calls[c].pc = "fetch" /\ calls'[c].result = "http"

\* C1: once maxFailures qualifying failures have been reported with no ok
\* response in between, the breaker is open for cooldownMs after the last of
\* them, and every call that starts in that time fails with the "cooling
\* down" error without a network request.
C1_TrippedCallsRejected ==
    /\ (streak >= maxFailures /\ now < lastTrip + cooldownMs) => now < cooldownUntil
    /\ \A c \in CallIds :
          calls[c].trippedAtStart =>
             /\ calls[c].pc = "done"
             /\ calls[c].result = "cooling"
             /\ ~calls[c].issued

\* C1 witness: a call started while the breaker was tripped and was rejected,
\* one clock step after the trip.
C1_Witness ==
    \E c \in CallIds :
       /\ calls[c].trippedAtStart
       /\ calls[c].result = "cooling"
       /\ streak >= maxFailures
       /\ now > lastTrip

\* C2: an ok response sets the failure counter to 0 whatever it was, and the
\* breaker trips only when maxFailures qualifying failures have come since the
\* last ok response.
C2_SuccessResets ==
    [][ /\ \A c \in CallIds : OkResponse(c) => failures' = 0
        /\ cooldownUntil' # cooldownUntil => streak' >= maxFailures ]_vars

\* C2 witness: a chat call got an ok response after failures had been counted
\* (the other call ended with a 500), and the counter is 0.
C2_Witness ==
    \E c, d \in CallIds :
       /\ calls[c].pc = "body" /\ calls[c].kind = "chat"
       /\ calls[d].result = "http" /\ calls[d].status = 500
       /\ failures = 0

\* C3: the failure counter and cooldownUntil change only in a step in which a
\* response arrives; a non-ok response with status >= 500 or 429 adds exactly
\* 1 to the counter, and a non-ok response with another status, a network
\* error, a timeout and a cancellation leave both unchanged.
C3_OnlyQualifyingCounts ==
    [][ /\ (failures' # failures \/ cooldownUntil' # cooldownUntil) =>
              \E c \in CallIds : OkResponse(c) \/ ErrorResponse(c)
        /\ \A c \in CallIds :
              ErrorResponse(c) =>
                 IF calls'[c].status >= 500 \/ calls'[c].status = 429
                 THEN failures' = failures + 1
                 ELSE failures' = failures /\ cooldownUntil' = cooldownUntil
        /\ \A c \in CallIds :
              (calls[c].pc = "fetch" /\ calls'[c].result \in {"network", "cancelled"})
                 => failures' = failures /\ cooldownUntil' = cooldownUntil ]_vars

\* C3 witness: with one failure counted, a call ended with a 400 and another
\* was cancelled, and the counter is still 1.
C3_Witness ==
    \E c, d \in CallIds :
       /\ calls[c].result = "http" /\ calls[c].status = 400
       /\ calls[d].result = "cancelled"
       /\ failures = 1 /\ streak = 1

\* C4: a call that starts when now >= cooldownUntil is not rejected by the
\* breaker, and with a credential it goes to the network.
C4_ClosedCallsProceed ==
    \A c \in CallIds :
       calls[c].closedAtStart =>
          /\ calls[c].result # "cooling"
          /\ calls[c].pc \in {"fetch", "body"} => calls[c].issued
          /\ (calls[c].pc = "done" /\ calls[c].result # "nokey") => calls[c].issued

\* C4 witness: the cooldown of a trip has ended and two calls that started
\* after it are both at the network (no half-open probe).
C4_Witness ==
    /\ cooldownUntil > 0
    /\ now >= cooldownUntil
    /\ streak >= maxFailures
    /\ \A c \in CallIds : calls[c].pc = "fetch" /\ calls[c].deadline > cooldownUntil

\* C5 as stated: cooldownUntil never decreases, except that an ok response
\* resets it to 0.
C5_AsStated ==
    [][ IF \E c \in CallIds : OkResponse(c)
        THEN cooldownUntil' = 0
        ELSE cooldownUntil' >= cooldownUntil ]_vars

\* C5 amended: cooldownUntil never decreases; an ok response leaves it as it
\* is (only the failure counter is reset).
C5_NeverDecreases ==
    [][ /\ cooldownUntil' >= cooldownUntil
        /\ (\E c \in CallIds : OkResponse(c)) => cooldownUntil' = cooldownUntil ]_vars

\* C5 witness: an ok response has arrived after a trip and cooldownUntil still
\* has the value of the trip.
C5_Witness ==
    \E c \in CallIds :
       /\ calls[c].pc = "body"
       /\ failures = 0
       /\ cooldownUntil = lastTrip + cooldownMs
       /\ cooldownUntil > 0

\* C6: a createCompletion call whose caller signal or internal timeout was
\* aborted between its start and its return does not return a response.
C6_AbortedNeverResponds ==
    \A c \in CallIds :
       (calls[c].pc = "done" /\ calls[c].result = "response") =>
          ~calls[c].sigAborted /\ ~calls[c].ctrlAborted

\* The debounce timer of an automatic request has fired.
Fired(r) ==
    /\ reqs[r].trigger = "auto"
    /\ reqs[r].pc \in {"hash", "client", "resolved"}
    /\ reqs[r].outcome # "unsupported"

\* Network requests of the provider that are in flight with a signal that is
\* not aborted.
LiveFetches ==
    {c \in CallIds : calls[c].pc \in {"fetch", "body"} /\ ~calls[c].fetchAborted}

\* C7: at every moment at most one network request of the provider is in
\* flight with a cancellation signal that is not aborted.
C7_OneLiveFetch == Cardinality(LiveFetches) <= 1

\* C8 as stated: every automatic request whose debounce timer fired (the last
\* event of its burst) runs fetchCompletion exactly once.
C8_AsStated == \A r \in ReqIds : Fired(r) => reqs[r].runs = 1

\* C8 amended: of a burst of automatic events, each less than debounceMs after
\* the one before, only the last one's timer fires: the earlier ones never run
\* fetchCompletion, at most one timer is armed, and the one that fires runs
\* fetchCompletion once if its token is not cancelled at that moment and not
\* at all (resolving to an empty list) if it is.
C8_TrailingEdge ==
    /\ [](\A r \in ReqIds :
            /\ reqs[r].early => reqs[r].runs = 0 /\ reqs[r].pc = "orphan"
            /\ reqs[r].runs <= 1
            /\ Fired(r) => \/ reqs[r].runs = 1
                           \/ /\ reqs[r].runs = 0
                              /\ reqs[r].pc = "resolved"
                              /\ reqs[r].outcome = "cancelled")
    /\ [](Cardinality({r \in ReqIds : reqs[r].pc = "debounce"}) <= 1)
    /\ [][\A r \in ReqIds :
            (reqs[r].pc = "debounce" /\ reqs'[r].pc \notin {"debounce", "orphan"}) =>
               /\ now >= reqs[r].deadline
               /\ debounceTimer = r
               /\ reqs'[r].runs = IF reqs[r].token THEN 0 ELSE 1]_vars

\* C8 witness: the first event of a burst of two was discarded without a
\* fetch, and the second one's timer fired and entered fetchCompletion.
C8_Witness ==
    \E p, r \in ReqIds :
       /\ p < r
       /\ reqs[p].early /\ reqs[p].runs = 0
       /\ Fired(r) /\ reqs[r].runs = 1 /\ reqs[r].pc = "client"

\* C9: every call of provideInlineCompletionItems that has not resolved yet has
\* something that will resolve it: its armed debounce timer or its running
\* fetchCompletion.
C9_PendingCanResolve ==
    \A r \in ReqIds :
       Pending(r) =>
          \/ reqs[r].pc = "debounce" /\ debounceTimer = r
          \/ reqs[r].pc \in {"hash", "client"}

\* C10: when the client call fails, fetchCompletion returns an empty list; a
\* cancellation (abort, timeout, supersession) is not logged and every other
\* failure is logged once.
C10_FailuresLoggedOnce ==
    \A r \in ReqIds :
       (reqs[r].pc = "resolved" /\ reqs[r].result \notin {"none", "response"}) =>
          /\ reqs[r].outcome # "served"
          /\ reqs[r].logged = IF reqs[r].result = "cancelled" THEN 0 ELSE 1

\* C11 as stated: a request made before the expiry of the entry stored for its
\* key is served from the cache: it never gets as far as the client.
C11_AsStated == \A r \in ReqIds : reqs[r].pc = "client" => ~reqs[r].fresh

\* C11 amended: a request whose cache lookup (after the debounce delay and the
\* hashing of the key) happens at or before the expiry of the entry stored for
\* its key resolves with the cached item in that step, and neither the client,
\* the cache nor the provider's controller is touched; a request served that
\* way has made no client call at all.
C11_ServedFromCache ==
    /\ [][\A r \in ReqIds :
            (/\ reqs[r].pc = "hash"
             /\ reqs'[r].pc # "hash"
             /\ cache[reqs[r].key] # 0
             /\ now <= cache[reqs[r].key]) =>
               /\ reqs'[r].pc = "resolved"
               /\ reqs'[r].outcome = "served"
               /\ reqs'[r].result = "none"
               /\ calls' = calls
               /\ cache' = cache
               /\ abortController' = abortController]_vars
    /\ [](\A r \in ReqIds :
            (reqs[r].outcome = "served" /\ reqs[r].result = "none") =>
               calls[r] = IdleCall)

\* C11 witness: the first request fetched a suggestion and stored it; the
\* second, an automatic one made after the long pause, was served from the
\* cache without a client call, the entry not yet expired.
C11_Witness ==
    \E p, r \in ReqIds :
       /\ p < r
       /\ reqs[p].outcome = "served" /\ reqs[p].result = "response"
       /\ reqs[r].outcome = "served" /\ reqs[r].result = "none"
       /\ reqs[r].trigger = "auto"
       /\ calls[r] = IdleCall
       /\ now > LullMs
       /\ \E k \in Keys : cache[k] # 0 /\ now <= cache[k]

\* C12: a call of provideInlineCompletionItems for a language that is not in
\* the allow-list, automatic or manual, resolves at once with an empty list and
\* changes nothing else: not the debounce timer, the cache, the controller, the
\* other requests, the client calls or the breaker.
C12_GateChangesNothing ==
    [][\A r \in ReqIds, trigger \in Triggers, k \in Keys :
         \A languageId \in Languages \ supportedLanguages :
            provideInlineCompletionItems(r, languageId, trigger, k) =>
               /\ reqs'[r].pc = "resolved"
               /\ reqs'[r].outcome = "unsupported"
               /\ reqs'[r].runs = 0
               /\ \A q \in ReqIds \ {r} : reqs'[q] = reqs[q]
               /\ UNCHANGED <<debounceTimer, abortController, cache>>
               /\ UNCHANGED clientVars]_vars

\* C12 witness: a manual call for an unsupported language returned while the
\* timer of an automatic request was armed, and the timer is still armed.
C12_Witness ==
    \E p, r \in ReqIds :
       /\ reqs[r].outcome = "unsupported" /\ reqs[r].trigger = "invoke"
       /\ reqs[p].pc = "debounce" /\ debounceTimer = p
       /\ p < r

\* C13: a manual invocation for a supported language enters fetchCompletion in
\* the step of the call (it stands at the hash of the cache key, with one run
\* counted and no timer of its own), leaves the debounce timer and every other
\* request as they are, and is never found waiting for a timer.
C13_InvokeBypassesDebounce ==
    /\ [][\A r \in ReqIds, k \in Keys :
            \A languageId \in supportedLanguages :
               provideInlineCompletionItems(r, languageId, "invoke", k) =>
                  /\ reqs'[r].pc = "hash"
                  /\ reqs'[r].runs = 1
                  /\ reqs'[r].deadline = NoTimer
                  /\ debounceTimer' = debounceTimer
                  /\ \A q \in ReqIds \ {r} : reqs'[q] = reqs[q]]_vars
    /\ [](\A r \in ReqIds :
            (reqs[r].trigger = "invoke" /\ reqs[r].outcome # "unsupported") =>
               /\ reqs[r].pc \notin {"debounce", "orphan"}
               /\ debounceTimer # r)

\* C13 witness: a manual invocation is at the client while the timer of an
\* automatic request made before it is still armed and not yet due.
C13_Witness ==
    \E p, r \in ReqIds :
       /\ p < r
       /\ reqs[p].pc = "debounce" /\ debounceTimer = p /\ now < reqs[p].deadline
       /\ reqs[r].trigger = "invoke" /\ reqs[r].pc = "client"

\* The three parts of the TTL round trip, for the time-to-live values in T:
\* a setCompletion that the store applies, followed at once by getCompletion,
\* gives back the item; a getCompletion of an entry whose expiry (the time of
\* its setCompletion plus ttlSeconds * 1000) lies before now returns undefined
\* and calls update to delete it; one made at or before the expiry returns the
\* stored item, calls no update and leaves the store as it is.
RoundTrip(T) ==
    /\ \A key \in CacheKeys, item \in Items, ttl \in T :
          setCompletion(key, item, ttl, TRUE) =>
             /\ store'[CACHE_PREFIX \o key].expiry = now + ttl * 1000
             /\ getCompletion(store', now', key) = item
    /\ \A key \in CacheKeys, applied \in BOOLEAN :
          LET entry == store[CACHE_PREFIX \o key]
          IN  (CallGet(key, applied) /\ entry # NoEntry) =>
                 IF now > entry.expiry
                 THEN /\ ret'.value = "undefined"
                      /\ ret'.updates = {CACHE_PREFIX \o key}
                      /\ applied => store'[CACHE_PREFIX \o key] = NoEntry
                      /\ \A k \in StoreKeys \ {CACHE_PREFIX \o key} :
                            store'[k] = store[k]
                 ELSE /\ ret'.value = entry.item
                      /\ ret'.updates = {}
                      /\ store' = store

C15_ClearRemovesCacheKeys ==
    [][\A failing \in SUBSET StoreKeys :
          clear(failing) =>
             /\ ret'.value = "void"
             /\ \A k \in StoreKeys :
                   IF startsWith(k, CACHE_PREFIX) \/ startsWith(k, CHAT_CACHE_PREFIX)
                   THEN /\ store[k] # NoEntry => k \in ret'.updates
                        /\ k \notin failing => store'[k] = NoEntry
                   ELSE store'[k] = store[k]]_vars

\* C15 witness: clear has run over a completion entry and a chat entry, the
\* removal of one was rejected and the other is gone, and the key of another
\* component that holds the prefix in its middle still has its value.
C15_Witness ==
    /\ ret.op = "clear"
    /\ Cardinality(ret.updates) >= 2
    /\ Cardinality(ret.rejected) = 1
    /\ \E k \in ret.updates \ ret.rejected : store[k] = NoEntry
    /\ \E k \in ret.rejected : store[k] # NoEntry
    /\ store[<<"settings", "completion_cache">>] = ForeignEntry

\* a is an initial part of b.
IsPrefix(a, b) == Len(a) <= Len(b) /\ SubSeq(b, 1, Len(a)) = a

\* The text of the first n bytes of body b.
TextUpTo(b, n) == decode(<<>>, SubSeq(Bodies[b], 1, n)).text

\* The lines of a text that have their terminator.
CompleteLines(text) ==
    LET pieces == split(text) IN SubSeq(pieces, 1, Len(pieces) - 1)

\* For each body, the lines that have arrived with their terminator when its
\* first n bytes have been read.
ArrivedAt ==
    [b \in DOMAIN Bodies |->
        [n \in 0..Len(Bodies[b]) |-> CompleteLines(TextUpTo(b, n))]]

\* The lines that have arrived with their terminator.
Arrived == ArrivedAt[sse.body][sse.pos]

\* The delta contents, not empty, of the well-formed records among the lines,
\* up to the first line "data: [DONE]".
RECURSIVE Contents(_)
Contents(lines) ==
    IF lines = <<>> THEN <<>>
    ELSE LET line == Head(lines)
             parsed == JSONparse(slice(line, 6))
         IN  IF line = DataPrefix \o DONE THEN <<>>
             ELSE IF startsWith(line, DataPrefix) /\ parsed.ok /\ parsed.content # <<>>
                  THEN <<parsed.content>> \o Contents(Tail(lines))
                  ELSE Contents(Tail(lines))

\* The consumer takes every fragment that is ready without a further read.
RECURSIVE Drain(_)
Drain(st) == IF st.pc = "yield" THEN Drain(Run(st)) ELSE st

\* The fragments parseSSE produces when the whole body arrives as one chunk,
\* for each body.
OneShotOut ==
    [b \in DOMAIN Bodies |-> Drain(Feed(StartStream(b), Len(Bodies[b]))).out]

OneShot(b) == OneShotOut[b]

\* C16: however the body is cut into chunks, the fragments yielded so far are
\* an initial part of the fragments of the body read as one chunk, and all of
\* them once the sequence has ended; no fragment is yielded from a line whose
\* terminator has not arrived; the body with the records ab, cd and [DONE]
\* gives exactly ab, cd and ends without error.
C16_ChunkIndependent ==
    /\ IsPrefix(sse.out, OneShot(sse.body))
    /\ IsPrefix(sse.out, Contents(Arrived))
    /\ sse.pc = "ended" => sse.out = OneShot(sse.body)
    /\ (sse.pc = "ended" /\ sse.body \in {1, 2}) =>
          /\ sse.out = << <<"a", "b">>, <<"c", "d">> >>
          /\ sse.error = "none"

\* C16 witness: the body with CR LF terminators was read with a chunk boundary
\* between a CR and its LF, and the sequence ended with ab, cd.
C16_Witness ==
    /\ sse.body = 2
    /\ sse.cutCR
    /\ sse.pc = "ended"
    /\ sse.out = << <<"a", "b">>, <<"c", "d">> >>

\* A complete line "data: [DONE]" has arrived.
DoneArrived == \E i \in DOMAIN Arrived : Arrived[i] = DataPrefix \o DONE

\* C17: once a complete line "data: [DONE]" has arrived, no read is made any
\* more, only fragments of the lines before it are yielded, and the sequence
\* ends without error and with the reader released as soon as the consumer has
\* taken those (or the consumer leaves first).
C17_DoneEndsStream ==
    /\ [](DoneArrived =>
            /\ sse.pc \in {"yield", "ended", "returned"}
            /\ IsPrefix(sse.out, Contents(Arrived))
            /\ sse.pc = "ended" =>
                  /\ sse.error = "none"
                  /\ sse.released = 1
                  /\ sse.out = Contents(Arrived))
    /\ [][DoneArrived =>
            /\ sse'.pos = sse.pos
            /\ sse'.pc \in {"yield", "ended", "returned"}
            /\ sse.pc \in {"ended", "returned"} => sse' = sse]_vars

\* C17 witness: the body with records after [DONE] arrived whole, so that the
\* later records were in the chunk of [DONE]; the sequence ended with ab alone.
C17_Witness ==
    /\ sse.body = 4
    /\ sse.pos = Len(Bodies[4])
    /\ sse.pc = "ended"
    /\ sse.released = 1
    /\ sse.out = << <<"a", "b">> >>

\* C18: a data line that cannot be parsed never fails the stream, and when the
\* sequence has ended every well-formed record with content that stands before
\* [DONE] has been yielded, in order, whether it came before or after such a
\* line.
C18_MalformedSkipped ==
    /\ sse.error # "SyntaxError"
    /\ sse.pc = "ended" =>
          sse.out = Contents(ArrivedAt[sse.body][Len(Bodies[sse.body])])
    /\ (sse.pc = "ended" /\ sse.body = 3) =>
          sse.out = << <<"a", "b">>, <<"c", "d">> >>

\* C18 witness: the body with a truncated record between two good ones has
\* ended without error, with both good records yielded.
C18_Witness ==
    /\ sse.body = 3
    /\ sse.pc = "ended"
    /\ sse.error = "none"
    /\ sse.out = << <<"a", "b">>, <<"c", "d">> >>

\* C19: the reader parseSSE has taken is released once when the generator is
\* left, by whatever path (end of the body, [DONE], a rejected read, an observed
\* cancellation, return() at a yield), not before and never twice; without a
\* reader nothing is released.
C19_ReleasedOnce ==
    /\ sse.released <= 1
    /\ sse.acquired => (sse.released = 1 <=> sse.pc \in {"ended", "threw", "returned"})
    /\ ~sse.acquired => sse.released = 0

\* C19 witness: the consumer left its loop at a fragment after the token was
\* cancelled, and the reader has been released once.
C19_Witness ==
    /\ sse.pc = "returned"
    /\ sse.cancelled
    /\ sse.out # <<>>
    /\ sse.released = 1

\* C20: once the token is cancelled (and the abort is the token's, not the
\* timer's), the sequence yields no further fragment and raises no error.
C20_CancelEndsQuietly ==
    [][(sse.cancelled /\ sse.abortedBy = "token") =>
          /\ sse'.out = sse.out
          /\ sse'.error = "none"]_vars

\* C21: a request that is in flight (the fetch is pending or the body is being
\* read) when the time its timer was set for has come is over some time later,
\* though the upstream never answers again and the caller never cancels.
C21_TimeoutTerminates ==
    \A c \in 1..MaxCalls :
       (calls[c].pc \in {"fetch", "body"} /\ now >= calls[c].due)
          ~> (calls[c].pc = "done")

\* C22: an entry appears in the cache, or gets a later expiry, only in the
\* step in which the client call of a request returns a response whose cleaned
\* text is not empty, under the key of that request and with the configured
\* time to live; a request that resolves in any other way (a cache hit, an
\* empty cleaned text, a failure, a cancellation) stores nothing in that step.
C22_OnlyGoodFetchWrites ==
    [][ /\ \A k \in Keys :
              (cache'[k] # cache[k] /\ cache'[k] # 0) =>
                 /\ cache'[k] = now + ttlSeconds * 1000
                 /\ \E r \in ReqIds :
                       /\ reqs[r].pc = "client" /\ reqs[r].key = k
                       /\ calls[r].pc = "body" /\ calls'[r].result = "response"
                       /\ reqs'[r].pc = "resolved"
                       /\ reqs'[r].outcome = "served"
        /\ \A r \in ReqIds :
              (/\ Pending(r)
               /\ reqs'[r].pc = "resolved"
               /\ ~(reqs'[r].outcome = "served" /\ reqs'[r].result = "response")) =>
                 \A k \in Keys : cache'[k] \in {cache[k], 0} ]_vars

\* C22 witness: one request got a response whose cleaned text was empty and
\* another a usable one, for different keys, and the cache holds exactly one
\* entry.
C22_Witness ==
    \E p, r \in ReqIds :
       /\ reqs[p].outcome = "empty" /\ reqs[p].result = "response"
       /\ reqs[r].outcome = "served" /\ reqs[r].result = "response"
       /\ Cardinality({k \in Keys : cache[k] # 0}) = 1

\* A step in which call c is entered, or gets the answer of the credential
\* store, while the store holds no key.
KeylessStep(c) ==
    /\ secret = NoSecret
    /\ calls[c].pc \in {"idle", "done", "getKey"}
    /\ calls'[c] # calls[c]

\* C23 as stated: with no key in the credential store, a call that ends does so
\* with the configuration error, without a network request and with the
\* breaker as it was.
C23_AsStated ==
    [][\A c \in CallIds :
          (KeylessStep(c) /\ calls'[c].pc = "done") =>
             /\ calls'[c].result = "nokey"
             /\ ~calls'[c].issued
             /\ failures' = failures
             /\ cooldownUntil' = cooldownUntil]_vars

\* C23 amended: with no key in the credential store, no operation gets as far
\* as a network request and none changes the breaker; the call ends with the
\* configuration error when it gets the answer of the store, which
\* testConnection always does, while createCompletion and createChatCompletion
\* entered with the breaker open end with the cooling-down error before they
\* ask the store.
C23_NoKeyNoRequest ==
    [][\A c \in CallIds :
          KeylessStep(c) =>
             /\ calls'[c].pc \in {"getKey", "done"}
             /\ ~calls'[c].issued
             /\ calls'[c].headers = {}
             /\ failures' = failures
             /\ cooldownUntil' = cooldownUntil
             /\ calls'[c].pc = "done" =>
                   IF calls[c].pc = "getKey"
                   THEN calls'[c].result = "nokey"
                   ELSE /\ calls'[c].result = "cooling"
                        /\ calls'[c].kind # "test"
                        /\ now < cooldownUntil]_vars

\* C23 witness: after a failure was counted the key was removed; a connectivity
\* test and a completion call have both ended with the configuration error,
\* neither sent a request, and the count is as it was.
C23_Witness ==
    /\ secret = NoSecret
    /\ failures = 1
    /\ \E c, d \in CallIds :
          /\ calls[c].kind = "test" /\ calls[c].result = "nokey" /\ ~calls[c].issued
          /\ calls[d].kind # "test" /\ calls[d].result = "nokey" /\ ~calls[d].issued

\* C24: every request the client has sent (GET /models, POST /completions,
\* POST /chat/completions) carried the Authorization header with the bearer
\* token of a stored key and the fixed User-Agent header.
C24_RequestsCarryHeaders ==
    \A c \in CallIds :
       calls[c].issued =>
          /\ \E key \in Secrets \ {NoSecret} :
                <<"Authorization", <<"Bearer", key>>>> \in calls[c].headers
          /\ <<"User-Agent", <<"MyAICopilot/0.1.0">>>> \in calls[c].headers

\* C25: two requests have the same cache key if and only if they have the same
\* languageId, the same document and the same preceding text (the hash being
\* free of collisions).
C25_KeyIffInputs ==
    \A i, j \in DOMAIN derived :
       derived[i].key = derived[j].key
          <=> /\ derived[i].languageId = derived[j].languageId
              /\ derived[i].uri = derived[j].uri
              /\ derived[i].precedingText = derived[j].precedingText

\* A step in which the token of request p is cancelled, or in which the
\* listener of a token that was cancelled before it was linked runs.
TokenCancelStep(p) ==
    \/ ~reqs[p].token /\ reqs'[p].token
    \/ reqs[p].late /\ ~reqs'[p].late

\* C26: the cancellation of the token of one request does not abort the
\* network fetch of another request whose own token is not cancelled.
C26_CancelIsRequestScoped ==
    [][\A p, r \in ReqIds :
          (p # r /\ TokenCancelStep(p) /\ ~reqs[r].token /\ ~reqs'[r].token) =>
             (calls'[r].fetchAborted => calls[r].fetchAborted)]_vars

\* C27 as stated: whenever the breaker is closed the failure count is below
\* maxFailures.
C27_AsStated == now >= cooldownUntil => failures < maxFailures

\* C27 amended: the count is the number of qualifying failures since the last
\* ok response; when it is at or above maxFailures the breaker was opened by
\* the last of them, for cooldownMs from that moment; the passing of time, and
\* with it the end of the cooldown, leaves the count as it is; and from a count
\* at or above maxFailures an ok response takes it to 0 and one more qualifying
\* failure opens the breaker again for cooldownMs.
C27_CountSurvivesCooldown ==
    /\ [](failures = streak)
    /\ [](failures >= maxFailures =>
            /\ cooldownUntil = lastTrip + cooldownMs
            /\ now >= lastTrip)
    /\ [][now' # now => failures' = failures]_vars
    /\ [][(failures >= maxFailures /\ failures' # failures) =>
            \/ failures' = 0
            \/ /\ failures' = failures + 1
               /\ cooldownUntil' = now + cooldownMs]_vars

\* C27 witness: the cooldown of a trip has ended with the count still at
\* maxFailures, and the single failure that followed has opened the breaker
\* again.
C27_Witness ==
    /\ failures = maxFailures + 1
    /\ now >= cooldownMs
    /\ cooldownUntil = now + cooldownMs

\* C28: when the debounce timer of an automatic request fires with the token
\* of the request already cancelled, the request resolves with an empty list
\* in that step, fetchCompletion is not entered (no cache lookup), and the
\* cache, the provider's controller, every client call and the breaker are as
\* they were.
C28_CancelledAtFire ==
    [][\A r \in ReqIds :
          (/\ reqs[r].pc = "debounce"
           /\ reqs[r].token
           /\ reqs'[r].pc \notin {"debounce", "orphan"}) =>
             /\ reqs'[r].pc = "resolved"
             /\ reqs'[r].outcome = "cancelled"
             /\ reqs'[r].runs = 0
             /\ reqs'[r].result = "none"
             /\ cache' = cache
             /\ abortController' = abortController
             /\ calls' = calls
             /\ UNCHANGED <<failures, cooldownUntil>>]_vars

\* C28 witness: an automatic request whose token was cancelled during the
\* debounce delay has resolved without entering fetchCompletion, while the
\* fetch of the other request is still in flight, not aborted.
C28_Witness ==
    \E q, r \in ReqIds :
       /\ reqs[r].trigger = "auto"
       /\ reqs[r].pc = "resolved" /\ reqs[r].outcome = "cancelled"
       /\ reqs[r].runs = 0
       /\ calls[r] = IdleCall
       /\ calls[q].pc = "fetch" /\ ~calls[q].fetchAborted /\ ~calls[q].sigAborted

\* C29: a call of testConnection, createCompletion or createChatCompletion
\* that is over, however it ended, has no timer armed, and the timer of a call
\* fires only while the call is waiting for its fetch or its body.
C29_NoTimerLeak ==
    /\ [](\A c \in CallIds :
            calls[c].pc \in {"idle", "done"} => calls[c].deadline = NoTimer)
    /\ [][\A c \in CallIds :
            (calls[c].deadline # NoTimer /\ calls'[c].ctrlAborted /\ ~calls[c].ctrlAborted)
               => calls[c].pc \in {"fetch", "body"} /\ calls'[c].pc = calls[c].pc]_vars

\* C29 witness: a chat call was left by its consumer and a connectivity test
\* ended with an error status, after the time of a timeout has passed, and
\* neither has a timer armed.
C29_Witness ==
    \E c, d \in CallIds :
       /\ calls[c].pc = "done" /\ calls[c].result = "returned"
       /\ calls[d].pc = "done" /\ calls[d].kind = "test" /\ calls[d].result = "http"
       /\ calls[c].deadline = NoTimer /\ calls[d].deadline = NoTimer
       /\ now >= completionTimeoutMs

\* The reports of handleChat that are fragments of the answer, and those that
\* are error messages.
IsFragment(report) == report.kind = "fragment"

IsErrorMessage(report) == report.kind = "error"

\* C30: once the token is cancelled handleChat reports no further fragment and
\* no further chunk can arrive (the pending read can only reject or end);
\* when it finds the token cancelled at a fragment it leaves the loop, which
\* closes the generator (reader released, timer cleared); handleChat returns
\* and never throws, it has returned exactly when the generator is closed, and
\* it has reported one error message, the last report, exactly when the
\* generator threw.
C30_ChatStopsQuietly ==
    /\ [][sse.cancelled =>
            SelectSeq(sse'.reported, IsFragment) = SelectSeq(sse.reported, IsFragment)]_vars
    /\ [][(sse.pc = "yield" /\ sse.cancelled /\ sse'.pc # "yield") =>
            /\ sse'.pc = "returned"
            /\ sse'.released = 1
            /\ ~sse'.timer
            /\ sse'.handler = "returned"
            /\ sse'.reported = sse.reported]_vars
    /\ [](sse.cancelled /\ sse.pc = "read" => sse.errored \/ sse.closed)
    /\ [](sse.handler \in {"running", "returned"})
    /\ [](sse.handler = "returned" <=> sse.pc \in {"ended", "threw", "returned"})
    /\ [](sse.handler = "returned" =>
            /\ ~sse.timer
            /\ sse.acquired => sse.released = 1)
    /\ [](Len(SelectSeq(sse.reported, IsErrorMessage))
            = IF sse.pc = "threw" THEN 1 ELSE 0)
    /\ [](sse.pc = "threw" =>
            sse.reported[Len(sse.reported)] = ErrorMessage(sse.error))

\* C30 witness: the token was cancelled while a fragment was waiting to be
\* taken; handleChat left the loop without reporting it, after it had reported
\* an earlier one, and the generator is closed.
C30_Witness ==
    /\ sse.pc = "returned"
    /\ sse.cancelled
    /\ sse.handler = "returned"
    /\ sse.reported # <<>>
    /\ Len(sse.out) = Len(sse.reported) + 1
    /\ sse.released = 1
    /\ ~sse.timer

\* C31: whatever the length of the history and the setting
\* chat.maxHistoryMessages >= 0, the messages built for a request are the
\* system message, then the last min(length, maxHistoryMessages) turns of
\* the history in their order, then the current prompt; so they hold at most
\* maxHistoryMessages messages of the history.
C31_HistoryBound ==
    \A i \in DOMAIN built :
       LET b == built[i]
           len == Len(b.history)
           n == IF len < b.maxHistory THEN len ELSE b.maxHistory
       IN  /\ b.messages =
                 <<SystemMessage(b.command)>>
                 \o [j \in 1..n |-> TurnMessage(b.history[len - n + j])]
                 \o <<UserMessage(b.ctx, "now")>>
           /\ Len(b.messages) - 2 <= b.maxHistory

====
